---- MODULE Spec2Model ----
(***************************************************************************)
(* A model of TileStache/PixelEffects.py: the pixel effects, the registry  *)
(* `all`, PixelEffect.apply and the Multiball composite effect.            *)
(*                                                                         *)
(* A buffer is a record: its colour mode, its size and one entry per pixel *)
(* column (a crop or a paste in Shredder always spans the full height, so  *)
(* a column is the unit that moves).  A column carries `src`, the number   *)
(* of the input column its colour data comes from (0: blank), `a`, its     *)
(* value in the alpha band (NoAlpha when the mode has none) and `fx`, the  *)
(* colour transformations applied to it, in order.  The module is read     *)
(* with Python 2 semantics (integer `/`, `range` a list), the only one     *)
(* under which Shredder runs.                                              *)
(***************************************************************************)
EXTENDS Integers, Sequences, FiniteSets, TLC

\* ----------------------------------------------------------------- bounds
MaxLen == 2        \* longest effect-name list handed to Multiball
MaxWidth == 5      \* widest buffer
MaxHeight == 5     \* tallest buffer
MaxCalls == 2      \* apply calls (and Multiball instances) in one run
MaxShreds == 2     \* largest shred count enumerated (randint gives up to RandHi)
MaxDraw == 2       \* largest value enumerated for a 50/50 draw
MaxArg == 3        \* constructor arguments range over -MaxArg .. FactorMax + MaxArg

\* ------------------------------------------------------ program constants
RandLo == 1
RandHi == 10
FactorMin == 0          \* 0.0, in hundredths
FactorMax == 100        \* 1.0, in hundredths
FactorDefault == 85     \* 0.85, in hundredths
ReductionMin == 1
ReductionDefault == 5
RadiusMin == 0
RadiusDefault == 5
ThresholdDefault == 128
Opaque == 255           \* the alpha PIL gives a buffer converted from a mode without alpha
NoAlpha == -1           \* the mode has no alpha band
NotFound == -1          \* str.index found nothing (Python raises ValueError)

\* ---------------------------------------------------------------- numbers
\* A Python number: an ordered value or NaN.  Every comparison with NaN is False.
Num(v) == [v |-> v, nan |-> FALSE]
NaN == [v |-> 0, nan |-> TRUE]
Gt(a, b) == ~a.nan /\ ~b.nan /\ a.v > b.v
Lt(a, b) == ~a.nan /\ ~b.nan /\ a.v < b.v
Ge(a, b) == ~a.nan /\ ~b.nan /\ a.v >= b.v
Le(a, b) == ~a.nan /\ ~b.nan /\ a.v <= b.v

\* Python's max(a, b) keeps a unless b > a; min(a, b) keeps a unless b < a.
PyMax(a, b) == IF Gt(b, a) THEN b ELSE a
PyMin(a, b) == IF Lt(b, a) THEN b ELSE a

\* ---------------------------------------------------------------- buffers
ModeChars(mode) ==
    CASE mode = "L" -> <<"L">>
      [] mode = "LA" -> <<"L", "A">>
      [] mode = "RGB" -> <<"R", "G", "B">>
      [] mode = "RGBA" -> <<"R", "G", "B", "A">>
      [] mode = "CMYK" -> <<"C", "M", "Y", "K">>
      [] mode = "LAB" -> <<"L", "A", "B">>
      [] mode = "1" -> <<"1">>
      [] OTHER -> <<>>

\* PIL's modes with an alpha band (Image.putalpha's list, without palette modes).
AlphaModes == {"LA", "RGBA"}
HasAlpha(mode) == mode \in AlphaModes

\* str.index(ch): the 0-based position of the first occurrence, NotFound if none.
StrIndex(chars, ch) ==
    IF \E i \in 1..Len(chars) : chars[i] = ch
    THEN (CHOOSE i \in 1..Len(chars) :
              chars[i] = ch /\ \A j \in 1..(i - 1) : chars[j] # ch) - 1
    ELSE NotFound

Tag(op, arg, n) == [op |-> op, arg |-> arg, n |-> n]
Col(src, a, fx) == [a |-> a, src |-> src, fx |-> fx]
BlankCol == Col(0, 0, <<>>)

Buffer(mode, w, h, cols) ==
    [mode |-> mode, w |-> w, h |-> h, cols |-> cols, kind |-> "buffer", err |-> ""]

\* The outcome of an operation that raised `e`.
Raised(e) == [mode |-> "", w |-> 0, h |-> 0, cols |-> <<>>, kind |-> "buffer", err |-> e]

IsBuffer(x) == x.kind = "buffer" /\ x.err = ""

\* A method or attribute of a PIL image used on x: an exception already raised
\* goes on, a value that is no buffer has no such attribute.
Guard(x, result) ==
    IF x.err # "" THEN x
    ELSE IF x.kind # "buffer" THEN Raised("AttributeError")
    ELSE result

\* A per-pixel operation on the colour data: every column gets its tags.
Stamp(img, tags) ==
    [img EXCEPT !.cols = [i \in 1..Len(img.cols) |->
        Col(img.cols[i].src, img.cols[i].a, img.cols[i].fx \o tags)]]

\* Image.convert(mode): the mode changes; alpha is kept when both modes have it,
\* opaque when only the target has it, dropped when the target has none.
Convert(img, mode) ==
    Guard(img,
      [img EXCEPT !.mode = mode,
                  !.cols = [i \in 1..Len(img.cols) |->
                      Col(img.cols[i].src,
                          IF HasAlpha(mode)
                          THEN (IF HasAlpha(img.mode) THEN img.cols[i].a ELSE Opaque)
                          ELSE NoAlpha,
                          Append(img.cols[i].fx, Tag("convert", mode, 0)))]])

\* Image.split(): one plane per band; a plane holds one value per column.  A
\* colour band of a column holds the column's colour (its src), the alpha band
\* its alpha.
Split(img) ==
    LET chars == ModeChars(img.mode)
    IN  [b \in 1..Len(chars) |->
            [i \in 1..Len(img.cols) |->
                IF HasAlpha(img.mode) /\ b = Len(chars)
                THEN img.cols[i].a ELSE img.cols[i].src]]

\* Image.putalpha(plane), in place: a buffer without alpha band is promoted
\* first (L to LA, RGB to RGBA), then the band is overwritten; a plane of
\* another size is a ValueError.
PutAlpha(img, plane) ==
    Guard(img,
      LET mode == IF HasAlpha(img.mode) THEN img.mode
                  ELSE IF img.mode = "L" THEN "LA"
                  ELSE IF img.mode = "RGB" THEN "RGBA"
                  ELSE ""
      IN  IF mode = "" \/ Len(plane) # Len(img.cols) THEN Raised("ValueError")
          ELSE [img EXCEPT !.mode = mode,
                           !.cols = [i \in 1..Len(img.cols) |->
                                        Col(img.cols[i].src, plane[i], img.cols[i].fx)]])

put_original_alpha(original_image, new_image) ==
    IF original_image.err # "" THEN original_image
    ELSE IF original_image.kind # "buffer" THEN Raised("AttributeError")
    ELSE LET alpha_idx == StrIndex(ModeChars(original_image.mode), "A")
         IN  IF alpha_idx = NotFound THEN new_image
             ELSE LET alpha_channel == Split(original_image)[alpha_idx + 1]
                      put == PutAlpha(new_image, alpha_channel)
                  IN  IF put.err = "ValueError" THEN new_image ELSE put

\* Image.blend(im1, im2, alpha): im1 * (1 - alpha) + im2 * alpha on every band, the
\* alpha band included; alpha (in hundredths) 0 gives a copy of im1, FactorMax
\* a copy of im2; buffers of different mode or size are a ValueError.
Blend(im1, im2, alpha) ==
    Guard(im1, Guard(im2,
      IF im1.mode # im2.mode \/ im1.w # im2.w \/ im1.h # im2.h THEN Raised("ValueError")
      ELSE IF alpha = FactorMin THEN im1
      ELSE IF alpha = FactorMax THEN im2
      ELSE [im1 EXCEPT !.cols = [i \in 1..Len(im1.cols) |->
               Col(im1.cols[i].src,
                   IF HasAlpha(im1.mode)
                   THEN im1.cols[i].a
                        + ((im2.cols[i].a - im1.cols[i].a) * alpha) \div FactorMax
                   ELSE NoAlpha,
                   Append(im1.cols[i].fx, Tag("blend", "", alpha)))]]))

\* Image.resize(size, Image.NEAREST): output column x shows the input column
\* under its centre; an empty size is a ValueError.
Resize(img, w, h) ==
    Guard(img,
      IF w <= 0 \/ h <= 0 THEN Raised("ValueError")
      ELSE [img EXCEPT
              !.w = w, !.h = h,
              !.cols = [x \in 1..w |->
                  LET c == img.cols[((2 * (x - 1) + 1) * img.w) \div (2 * w) + 1]
                  IN  IF h = img.h THEN c
                      ELSE Col(c.src, c.a, Append(c.fx, Tag("resize", "NEAREST", h)))]])

\* Image.filter(ImageFilter.GaussianBlur(radius)): every band is blurred, the
\* alpha band too (here: averaged with the neighbouring columns).
GaussianBlur(img, radius) ==
    Guard(img,
      IF radius = 0 THEN img
      ELSE LET n == Len(img.cols)
               at(i) == img.cols[IF i < 1 THEN 1 ELSE IF i > n THEN n ELSE i].a
           IN  [img EXCEPT !.cols = [i \in 1..n |->
                   Col(img.cols[i].src,
                       IF HasAlpha(img.mode)
                       THEN (at(i - 1) + at(i) + at(i + 1)) \div 3
                       ELSE NoAlpha,
                       Append(img.cols[i].fx, Tag("blur", "", radius)))]])

\* ImageOps.solarize(image, threshold)
ImageOps_solarize(img, threshold) ==
    Guard(img, Stamp(img, <<Tag("solarize", "", threshold)>>))

\* Image.new(mode, size): a blank buffer.
New(mode, w, h) == Buffer(mode, w, h, [i \in 1..w |-> BlankCol])

\* Image.crop((x1, 0, x2, height)): the columns x1 .. x2 - 1 at full height.
Crop(img, x1, x2) ==
    Guard(img, [img EXCEPT !.w = x2 - x1, !.cols = SubSeq(img.cols, x1 + 1, x2)])

\* Image.paste(region, (x, 0)): the region, converted to the target's mode when
\* the modes differ, overwrites the columns from x on.
Paste(dst, region, x) ==
    Guard(dst, Guard(region,
      LET im == IF region.mode # dst.mode THEN Convert(region, dst.mode) ELSE region
      IN  [dst EXCEPT !.cols = [i \in 1..Len(dst.cols) |->
              IF i > x /\ i <= x + Len(im.cols) THEN im.cols[i - x] ELSE dst.cols[i]]]))

\* ---------------------------------------------------------------- effects
\* An effect instance: its class and its one parameter (0 when it has none).
Instance(cls, p) == [cls |-> cls, p |-> p]

Blackwhite_init == Instance("Blackwhite", Num(0))
Greyscale_init == Instance("Greyscale", Num(0))
Halftone_init == Instance("Halftone", Num(0))
Shredder_init == Instance("Shredder", Num(0))

Desaturate_init(factor) == Instance("Desaturate", PyMin(PyMax(factor, Num(FactorMin)), Num(FactorMax)))

Pixelate_init(reduction) == Instance("Pixelate", PyMax(reduction, Num(ReductionMin)))

Blur_init(radius) == Instance("Blur", PyMax(radius, Num(RadiusMin)))

Solarize_init(threshold) == Instance("Solarize", threshold)

Blackwhite(image) ==
    LET new_image == Convert(Convert(image, "1"), image.mode)
    IN  Guard(new_image, put_original_alpha(image, new_image))

Greyscale(image) == Convert(Convert(image, "LA"), image.mode)

Desaturate(self, image) ==
    LET avg == Convert(Convert(image, "LA"), image.mode)
    IN  Blend(image, avg, self.p.v)

\* int(size / reduction): int() of NaN is a ValueError.
Pixelate(self, image) ==
    Guard(image,
      IF self.p.nan THEN Raised("ValueError")
      ELSE LET pixelated == Resize(image, image.w \div self.p.v, image.h \div self.p.v)
           IN  Resize(pixelated, image.w, image.h))

\* Each band of the CMYK version goes to 1 bit and back to L; the merged CMYK
\* buffer goes back to the input's mode.
Halftone(image) ==
    LET cmyk == Convert(image, "CMYK")
        bands == Guard(cmyk, Stamp(cmyk, <<Tag("convert", "1", 0), Tag("convert", "L", 0)>>))
        new_image == Convert(bands, image.mode)
    IN  Guard(new_image, put_original_alpha(image, new_image))

Blur(self, image) == GaussianBlur(image, self.p.v)

Solarize(self, image) == ImageOps_solarize(Convert(image, "RGB"), self.p.v)

\* The paste loop of Shredder: the strip at input slot sequence[i] goes to output slot i.
RECURSIVE ShredLoop(_, _, _, _, _)
ShredLoop(shredded, image, sequence, shred_width, i) ==
    IF i >= Len(sequence) THEN shredded
    ELSE LET shred_index == sequence[i + 1]
             shred_x1 == shred_width * shred_index
             shred_x2 == shred_x1 + shred_width
             region == Crop(image, shred_x1, shred_x2)
         IN  ShredLoop(Paste(shredded, region, shred_width * i),
                       image, sequence, shred_width, i + 1)

\* rnd: what the random source gave this call: the first draw d, the shred count
\* SHREDS and the shuffled sequence (the last two unused when d is odd).
Shredder(image, rnd) ==
    IF rnd.d % 2 = 0
    THEN Guard(image,
           LET shredded == New("RGBA", image.w, image.h)
               shred_width == image.w \div rnd.SHREDS
           IN  ShredLoop(shredded, image, rnd.sequence, shred_width, 0))
    ELSE image

\* The registry: effect name -> class.
all ==
    [name \in {"blackwhite", "greyscale", "desaturate", "pixelate", "halftone",
               "blur", "solarize", "shredder", "multiball"} |->
        CASE name = "blackwhite" -> "Blackwhite"
          [] name = "greyscale" -> "Greyscale"
          [] name = "desaturate" -> "Desaturate"
          [] name = "pixelate" -> "Pixelate"
          [] name = "halftone" -> "Halftone"
          [] name = "blur" -> "Blur"
          [] name = "solarize" -> "Solarize"
          [] name = "shredder" -> "Shredder"
          [] name = "multiball" -> "Multiball"]

\* cls(): the class called with no argument.  Multiball has a required argument.
DefaultInstance(cls) ==
    CASE cls = "Blackwhite" -> Blackwhite_init
      [] cls = "Greyscale" -> Greyscale_init
      [] cls = "Desaturate" -> Desaturate_init(Num(FactorDefault))
      [] cls = "Pixelate" -> Pixelate_init(Num(ReductionDefault))
      [] cls = "Halftone" -> Halftone_init
      [] cls = "Blur" -> Blur_init(Num(RadiusDefault))
      [] cls = "Solarize" -> Solarize_init(Num(ThresholdDefault))
      [] cls = "Shredder" -> Shredder_init
      [] OTHER -> Instance("TypeError", Num(0))

\* A lookup that falls back to the base class for a name the registry does not
\* hold, as all.get(effect_name, PixelEffect)() would.
LookupOrPassThrough(effect_name) ==
    IF effect_name \in DOMAIN all THEN DefaultInstance(all[effect_name])
    ELSE Instance("PixelEffect", Num(0))

\* all[effect_name](): a KeyError for a name the registry does not hold.
Lookup(effect_name) ==
    IF effect_name \in DOMAIN all THEN DefaultInstance(all[effect_name])
    ELSE Instance("KeyError", Num(0))

LookupFailed(inst) == inst.cls \in {"KeyError", "TypeError"}

\* effect_instance.apply_effect(image)
apply_effect(self, image, rnd) ==
    CASE self.cls = "Blackwhite" -> Blackwhite(image)
      [] self.cls = "Greyscale" -> Greyscale(image)
      [] self.cls = "Desaturate" -> Desaturate(self, image)
      [] self.cls = "Pixelate" -> Pixelate(self, image)
      [] self.cls = "Halftone" -> Halftone(image)
      [] self.cls = "Blur" -> Blur(self, image)
      [] self.cls = "Solarize" -> Solarize(self, image)
      [] self.cls = "Shredder" -> Shredder(image, rnd)
      [] OTHER -> Raised("NotImplementedError")

\* ------------------------------------------------------- PixelEffect.apply
\* x.image(): a PIL buffer has no such attribute; a Providers.Verbatim tile gives
\* its buffer; the other kinds are wrappers whose image() raises.
ImageMethod(x) ==
    CASE x.kind = "buffer" -> Raised("AttributeError")
      [] x.kind = "verbatim" -> [x EXCEPT !.kind = "buffer"]
      [] x.kind = "failsType" -> Raised("TypeError")
      [] x.kind = "failsAttr" -> Raised("AttributeError")
      [] OTHER -> Raised("IOError")

\* The exceptions PixelEffect.apply catches around image.image().
Swallowed == {"AttributeError", "TypeError"}

\* A try block with a bare except: every failure of image() is swallowed.
MaterializeBareExcept(image) ==
    LET r == ImageMethod(image)
    IN  IF r.err = "" THEN r ELSE image

\* The try block of PixelEffect.apply: the value apply_effect is called with, or
\* the exception that leaves apply.
Materialize(image) ==
    LET r == ImageMethod(image)
    IN  IF r.err = "" THEN r
        ELSE IF r.err \in Swallowed THEN image
        ELSE r

\* ------------------------------------------------------------ random source
Draws == {d \in RandLo..RandHi : d <= MaxDraw}
ShredCounts == {n \in RandLo..RandHi : n <= MaxShreds}

\* shuffle(range(0, SHREDS)): any permutation of 0 .. SHREDS - 1.
Shuffles(SHREDS) ==
    {p \in [1..SHREDS -> 0..(SHREDS - 1)] : \A i, j \in 1..SHREDS : p[i] = p[j] => i = j}

Rnd(d, SHREDS, sequence) == [sequence |-> sequence, d |-> d, SHREDS |-> SHREDS]
NoRnd == Rnd(0, 0, <<>>)

\* What Shredder.apply_effect can draw: an odd first draw, or an even one, a
\* shred count and a shuffle.
ShredderRnds ==
    {Rnd(d, 0, <<>>) : d \in {e \in Draws : e % 2 = 1}}
    \cup UNION {UNION {{Rnd(d, n, p) : p \in Shuffles(n)} : n \in ShredCounts} :
                d \in {e \in Draws : e % 2 = 0}}

\* What apply_effect of an instance draws.
EffectRnds(self) == IF self.cls = "Shredder" THEN ShredderRnds ELSE {NoRnd}

\* The values the random module hands out, in order, for one loop pass of
\* Multiball: the 50/50 draw, then what a Shredder that runs draws.
Consumed(d, ran, self, rnd) ==
    <<<<d>>>> \o
    (IF ran /\ self.cls = "Shredder"
     THEN <<<<rnd.d>>>> \o (IF rnd.d % 2 = 0 THEN <<<<rnd.SHREDS>>, rnd.sequence>> ELSE <<>>)
     ELSE <<>>)

VARIABLES
    heap,          \* list objects: reference -> the list's current content
    self_effects,  \* Multiball instance -> reference of its self.effects (0: not built)
    calls,         \* apply call -> its frame
    rng,           \* the process-wide random module
    arg, inst, src, other, out, op, rnd   \* one effect on its own: see InitEffects

vars == <<heap, self_effects, calls, rng, arg, inst, src, other, out, op, rnd>>
mbVars == <<heap, self_effects, calls, rng>>
fxVars == <<arg, inst, src, other, out, op, rnd>>

Calls == 1..MaxCalls
Instances == 1..MaxCalls
\* The caller's list objects, one per instance it could build, and the references
\* left for lists an instance would make itself.
CallerRefs == 1..MaxCalls
PrivateRef(i) == MaxCalls + i
Refs == CallerRefs \cup {PrivateRef(i) : i \in Instances}

\* A seeded generator repeats its stream after random.seed with the same seed:
\* `tape` is the stream handed out since the first seeding, `pos` how much of it
\* has been handed out since the last.  An unseeded one is unconstrained.
RngAllows(ds) ==
    \/ ~rng.seeded
    \/ \A k \in 1..Len(ds) :
          IF rng.pos + k > Len(rng.tape) THEN TRUE ELSE rng.tape[rng.pos + k] = ds[k]

RngAfter(ds) ==
    IF ~rng.seeded THEN rng
    ELSE [rng EXCEPT !.pos = rng.pos + Len(ds),
                     !.tape = IF rng.pos + Len(ds) <= Len(rng.tape) THEN rng.tape
                              ELSE SubSeq(rng.tape, 1, rng.pos) \o ds]

\* ---------------------------------------------------------------- Multiball
\* A constructor that keeps a copy, as self.effects = list(effects) would.
MultiballInitCopy(h, i, effects) ==
    [heap |-> [h EXCEPT ![PrivateRef(i)] = h[effects]], ref |-> PrivateRef(i)]

\* A constructor that keeps one list for the class, whatever it is given.
MultiballInitClassList(h, i, effects) == [heap |-> h, ref |-> 1]

\* Multiball.__init__: the instance keeps the list object it is given.
MultiballInit(h, i, effects) == [heap |-> h, ref |-> effects]

\* A loop that stops one element early.
LoopCondOffByOne(effects) == Len(effects) > 1

\* while len(self.effects) > 0
LoopCond(effects) == Len(effects) > 0

\* The name at the front of the list, as self.effects[0] would give.
PopFront(effects) == effects[1]

\* list.pop(): the last element leaves the list.
PopName(effects) == effects[Len(effects)]
PopRest(effects) == SubSeq(effects, 1, Len(effects) - 1)

\* The image a loop pass goes on with.
ModImage(ran, effect_instance, in_image, r) ==
    IF ran THEN apply_effect(effect_instance, in_image, r) ELSE in_image

Idle ==
    [log |-> <<>>, inst |-> 0, out |-> Raised(""), in_image |-> Raised(""), pc |-> "idle",
     given |-> Raised(""), received |-> Raised(""), napply |-> 0, late |-> FALSE,
     first |-> <<>>]

Running(c) == calls[c].pc \in {"loop", "pop"}
Finished(c) == calls[c].pc \in {"returned", "raised"}
RefOf(c) == self_effects[calls[c].inst]

Construct(i, effects) ==
    /\ self_effects[i] = 0
    /\ \A c \in Calls : calls[c].pc = "idle"
    /\ LET made == MultiballInit(heap, i, effects)
       IN  /\ heap' = made.heap
           /\ self_effects' = [self_effects EXCEPT ![i] = made.ref]
    /\ UNCHANGED <<calls, rng>>
    /\ UNCHANGED fxVars

\* PixelEffect.apply up to the call of apply_effect.
ApplyStart(c, i, image) ==
    /\ calls[c].pc = "idle"
    /\ self_effects[i] # 0
    /\ LET m == Materialize(image)
           frame == [Idle EXCEPT !.inst = i, !.given = image,
                        !.late = \E b \in Calls : calls[b].pc = "returned" /\ calls[b].inst = i,
                        !.first = heap[self_effects[i]]]
       IN  calls' = [calls EXCEPT ![c] =
                IF m.err # "" THEN [frame EXCEPT !.pc = "raised", !.out = m]
                ELSE [frame EXCEPT !.pc = "loop", !.received = m, !.napply = 1,
                                   !.in_image = m]]
    /\ UNCHANGED <<heap, self_effects, rng>>
    /\ UNCHANGED fxVars

\* The test of the while loop; when it fails apply_effect returns in_image.
LoopCheck(c) ==
    /\ calls[c].pc = "loop"
    /\ calls' = [calls EXCEPT ![c] =
            IF LoopCond(heap[RefOf(c)]) THEN [@ EXCEPT !.pc = "pop"]
            ELSE [@ EXCEPT !.pc = "returned", !.out = calls[c].in_image]]
    /\ UNCHANGED <<heap, self_effects, rng>>
    /\ UNCHANGED fxVars

\* One pass of the loop body: effect_name = self.effects.pop(), effect_instance =
\* all[effect_name](), the 50/50 draw d and, when d is even, the sub-effect (which
\* draws r) on the working image.  Only the pop touches what other calls see.
Pass(c, d, r) ==
    /\ calls[c].pc = "pop"
    /\ LET effects == heap[RefOf(c)]
       IN  IF Len(effects) = 0
           THEN /\ calls' = [calls EXCEPT ![c] =
                        [@ EXCEPT !.pc = "raised", !.out = Raised("IndexError")]]
                /\ r = NoRnd
                /\ UNCHANGED <<heap, rng>>
           ELSE LET effect_name == PopName(effects)
                    effect_instance == Lookup(effect_name)
                    ran == d % 2 = 0
                    entry == [ran |-> ran /\ ~LookupFailed(effect_instance),
                              name |-> effect_name, pos |-> Len(effects), ref |-> RefOf(c),
                              drew |-> ~LookupFailed(effect_instance)]
                    mod_image == ModImage(ran, effect_instance, calls[c].in_image, r)
                    ds == Consumed(d, ran, effect_instance, r)
                IN  /\ heap' = [heap EXCEPT ![RefOf(c)] = PopRest(effects)]
                    /\ IF LookupFailed(effect_instance)
                       THEN /\ r = NoRnd
                            /\ rng' = rng
                            /\ calls' = [calls EXCEPT ![c] =
                                 [@ EXCEPT !.pc = "raised", !.log = Append(@, entry),
                                           !.out = Raised(effect_instance.cls)]]
                       ELSE /\ r \in (IF ran THEN EffectRnds(effect_instance) ELSE {NoRnd})
                            /\ RngAllows(ds)
                            /\ rng' = RngAfter(ds)
                            /\ calls' = [calls EXCEPT ![c] =
                                 [@ EXCEPT !.log = Append(@, entry),
                                           !.in_image = mod_image,
                                           !.out = IF mod_image.err # "" THEN mod_image ELSE @,
                                           !.pc = IF mod_image.err # "" THEN "raised" ELSE "loop"]]
    /\ UNCHANGED self_effects
    /\ UNCHANGED fxVars

\* random.seed(the same seed) between two runs: the stream starts over.
Reseed ==
    /\ rng.seeded
    /\ rng.pos > 0
    /\ \A c \in Calls : ~Running(c)
    /\ rng' = [rng EXCEPT !.pos = 0]
    /\ UNCHANGED <<heap, self_effects, calls>>
    /\ UNCHANGED fxVars

\* ------------------------------------------------------------------ inputs
AlphaAt(pattern, i) == CASE pattern = 1 -> 0 [] pattern = 2 -> 128 [] OTHER -> 10 * i

\* A decoded tile: column i holds colour i and, in a mode with alpha, the
\* alpha of one of three patterns (transparent, half, a ramp).
TestImage(mode, w, h, pattern) ==
    Buffer(mode, w, h,
           [i \in 1..w |-> Col(i, IF HasAlpha(mode) THEN AlphaAt(pattern, i) ELSE NoAlpha, <<>>)])

ImagesOf(modes) ==
    {TestImage(m, w, h, pt) : m \in modes, w \in 1..MaxWidth, h \in {1, MaxHeight}, pt \in 1..3}

\* The modes the effects are run on, and the modes put_original_alpha is given.
EffectModes == {"L", "LA", "RGB", "RGBA", "CMYK"}
OriginalModes == EffectModes \cup {"LAB"}
DerivedModes == {"L", "LA", "RGB", "RGBA"}

BaseImage == TestImage("RGBA", MaxWidth, MaxHeight, 3)

Args == {Num(v) : v \in (0 - MaxArg)..(FactorMax + MaxArg)} \cup {NaN}

\* What a caller hands to apply: a buffer, a Verbatim tile, or a wrapper whose
\* image() raises.
Inputs ==
    {BaseImage, TestImage("RGB", MaxWidth, MaxHeight, 1)}
    \cup {[BaseImage EXCEPT !.kind = k] : k \in {"verbatim", "failsType", "failsAttr", "failsIO"}}

ListNames == {"blackwhite", "solarize", "shredder", "multiball", "nosuch"}
Lists == UNION {[1..n -> ListNames] : n \in 0..MaxLen}

\* --------------------------------------------------- one effect on its own
\* all[name]() as config.py builds an effect without parameters.
ConstructDefault(name) ==
    /\ op = "init"
    /\ inst' = Lookup(name)
    /\ op' = IF LookupFailed(inst') THEN "raised" ELSE "built"
    /\ UNCHANGED <<arg, src, other, out, rnd>>
    /\ UNCHANGED mbVars

\* A class with a parameter, called with arg.
ConstructWith(cls) ==
    /\ op = "init"
    /\ inst' = CASE cls = "Desaturate" -> Desaturate_init(arg)
                 [] cls = "Pixelate" -> Pixelate_init(arg)
                 [] cls = "Blur" -> Blur_init(arg)
                 [] OTHER -> Solarize_init(arg)
    /\ op' = "built"
    /\ UNCHANGED <<arg, src, other, out, rnd>>
    /\ UNCHANGED mbVars

\* apply_effect of the instance on src.
Run(r) ==
    /\ op = "built"
    /\ ~inst.p.nan
    /\ src.mode \in EffectModes
    /\ r \in EffectRnds(inst)
    /\ out' = apply_effect(inst, src, r)
    /\ rnd' = r
    /\ op' = IF out'.err # "" THEN "raised" ELSE "ran"
    /\ UNCHANGED <<arg, inst, src, other>>
    /\ UNCHANGED mbVars

\* put_original_alpha(src, a buffer of src's size in mode m).
PutOriginalAlpha(m) ==
    /\ op = "init"
    /\ arg = Num(FactorDefault)
    /\ other' = [TestImage(m, src.w, src.h, 2) EXCEPT
                    !.cols = [i \in 1..src.w |-> [@[i] EXCEPT !.src = 10 + i]]]
    /\ out' = put_original_alpha(src, other')
    /\ op' = "alpha"
    /\ UNCHANGED <<arg, inst, src, rnd>>
    /\ UNCHANGED mbVars

\* ----------------------------------------------------------- specifications
MbOff ==
    /\ heap = [r \in Refs |-> <<>>]
    /\ self_effects = [i \in Instances |-> 0]
    /\ calls = [c \in Calls |-> Idle]
    /\ rng = [seeded |-> FALSE, pos |-> 0, tape |-> <<>>]

FxOff ==
    /\ arg = Num(FactorDefault)
    /\ inst = Instance("", Num(0))
    /\ src = BaseImage
    /\ other = BaseImage
    /\ out = Raised("")
    /\ rnd = NoRnd
    /\ op = "off"

InitEffects ==
    /\ MbOff
    /\ src \in ImagesOf(OriginalModes)
    /\ arg \in Args
    /\ src = BaseImage \/ arg = Num(FactorDefault)
    /\ inst = Instance("", Num(0))
    /\ other = BaseImage
    /\ out = Raised("")
    /\ rnd = NoRnd
    /\ op = "init"

NextEffects ==
    \/ \E name \in DOMAIN all \cup {"nosuch"} : ConstructDefault(name)
    \/ \E cls \in {"Desaturate", "Pixelate", "Blur", "Solarize"} : ConstructWith(cls)
    \/ \E r \in ShredderRnds \cup {NoRnd} : Run(r)
    \/ \E m \in DerivedModes : PutOriginalAlpha(m)

SpecEffects == InitEffects /\ [][NextEffects]_vars

\* The caller's list objects hold equal lists of names.
InitLists(seeded, lists) ==
    /\ FxOff
    /\ \E effects \in lists :
          heap = [r \in Refs |-> IF r \in CallerRefs THEN effects ELSE <<>>]
    /\ self_effects = [i \in Instances |-> 0]
    /\ calls = [c \in Calls |-> Idle]
    /\ rng = [seeded |-> seeded, pos |-> 0, tape |-> <<>>]

\* Instances and calls are taken in order of their number.
NextInstance(i) == self_effects[i] = 0 /\ \A j \in 1..(i - 1) : self_effects[j] # 0
NextCall(c) == calls[c].pc = "idle" /\ \A b \in 1..(c - 1) : calls[b].pc # "idle"

Steps ==
    \/ \E c \in Calls : LoopCheck(c)
    \/ \E c \in Calls, d \in Draws, r \in ShredderRnds \cup {NoRnd} : Pass(c, d, r)

\* The tile a call is given: any input for the first call, the same tile again
\* for the later ones.
Tiles(c) == IF c = 1 THEN Inputs ELSE {calls[1].given}

\* A call uses an instance already used or the first one not yet used.
Usable(i) == \A j \in 1..(i - 1) : \E b \in Calls : calls[b].inst = j

\* One thread: an apply call starts when no other is running.
Init == InitLists(FALSE, Lists)

Next ==
    \/ \E i \in Instances : NextInstance(i) /\ Construct(i, 1)
    \/ \E c \in Calls, i \in Instances : \E x \in Tiles(c) :
          /\ NextCall(c)
          /\ Usable(i)
          /\ \A b \in Calls : ~Running(b)
          /\ ApplyStart(c, i, x)
    \/ Steps

Spec == Init /\ [][Next]_vars

\* Threads: apply calls on instances built from one list object interleave.
\* The names are those of effects that draw nothing themselves, and an unknown one.
SharedNames == {"solarize", "nosuch"}
SharedLists == UNION {[1..n -> SharedNames] : n \in 0..MaxLen}

InitShared == InitLists(FALSE, SharedLists)

NextShared ==
    \/ \E i \in Instances : NextInstance(i) /\ Construct(i, 1)
    \/ \E c \in Calls, i \in Instances :
          /\ NextCall(c)
          /\ Usable(i)
          /\ ApplyStart(c, i, BaseImage)
    \/ Steps

SpecShared == InitShared /\ [][NextShared]_vars

\* Instance i built from the caller's i-th list (all equal), the instances run one
\* after the other on the same input, the generator seeded with the same seed
\* before each run.
InitSeeded == InitLists(TRUE, Lists)

NextSeeded ==
    \/ \E i \in Instances : NextInstance(i) /\ Construct(i, i)
    \/ \E c \in Calls : \E x \in Tiles(c) :
          /\ NextCall(c)
          /\ \A b \in Calls : ~Running(b)
          /\ rng.pos = 0
          /\ ApplyStart(c, c, x)
    \/ Reseed
    \/ Steps

SpecSeeded == InitSeeded /\ [][NextSeeded]_vars

\* -------------------------------------------------------------- properties
Names(log) == [k \in 1..Len(log) |-> log[k].name]
Reverse(s) == [k \in 1..Len(s) |-> s[Len(s) + 1 - k]]
IsPrefix(p, s) == Len(p) <= Len(s) /\ \A k \in 1..Len(p) : p[k] = s[k]
Started(c) == calls[c].pc # "idle"

C2_Order ==
    \A c \in Calls :
       /\ IsPrefix(Names(calls[c].log), Reverse(calls[c].first))
       /\ \A k \in 1..Len(calls[c].log) : calls[c].log[k].pos = Len(calls[c].first) + 1 - k
       /\ calls[c].pc = "returned" => Len(calls[c].log) = Len(calls[c].first)

\* A pass that draws leaves the working image alone (odd draw) or replaces it by
\* the sub-effect's result on the working image of the pass before.
C2_Chained ==
    \A c \in Calls :
       (calls[c].pc = "pop" /\ Len(calls'[c].log) = Len(calls[c].log) + 1
           /\ calls'[c].log[Len(calls'[c].log)].drew) =>
          LET e == calls'[c].log[Len(calls'[c].log)]
              now == IF calls'[c].pc = "raised" THEN calls'[c].out ELSE calls'[c].in_image
          IN  IF e.ran
              THEN \E r \in EffectRnds(Lookup(e.name)) :
                      now = apply_effect(Lookup(e.name), calls[c].in_image, r)
              ELSE now = calls[c].in_image

\* C2 (Multiball ordering): in one apply call on a list [e1..eN] the names are
\* attempted in the order eN, ..., e1, each list position at most once, and the
\* sub-effects that are applied are each applied to the result of the one
\* applied before, in that order.
C2_Ordering == []C2_Order /\ [][C2_Chained]_vars

C2_Witness ==
    \E c \in Calls :
       /\ calls[c].pc = "returned"
       /\ Len(calls[c].log) = MaxLen
       /\ calls[c].log[1].name # calls[c].log[MaxLen].name
       /\ calls[c].log[1].ran /\ calls[c].log[MaxLen].ran
       /\ IsBuffer(calls[c].out)

\* C4 (unknown effect name): a name that is no key of `all` never resolves to an
\* effect; a call that pops one raises KeyError at that name, whatever the draw
\* would be, having drawn nothing and run nothing for it, and returns no image.
C4_UnknownName ==
    \A c \in Calls : \A k \in 1..Len(calls[c].log) :
       calls[c].log[k].name \notin DOMAIN all =>
          /\ k = Len(calls[c].log)
          /\ calls[c].pc = "raised"
          /\ calls[c].out.err = "KeyError"
          /\ ~calls[c].log[k].drew
          /\ ~calls[c].log[k].ran

C4_Witness ==
    \E c \in Calls :
       /\ Len(calls[c].log) = MaxLen
       /\ calls[c].log[MaxLen].name \notin DOMAIN all
       /\ calls[c].log[1].ran
       /\ calls[c].pc = "raised"

C6_Deterministic ==
    \A b, c \in Calls :
       (calls[b].pc \in {"returned", "raised"} /\ calls[c].pc \in {"returned", "raised"}) =>
          /\ calls[b].pc = calls[c].pc
          /\ calls[b].out = calls[c].out
          /\ calls[b].in_image = calls[c].in_image
          /\ Len(calls[b].log) = Len(calls[c].log)
          /\ \A k \in 1..Len(calls[b].log) :
                /\ calls[b].log[k].name = calls[c].log[k].name
                /\ calls[b].log[k].ran = calls[c].log[k].ran

C6_Witness ==
    /\ \A c \in Calls : calls[c].pc = "returned" /\ Len(calls[c].log) = MaxLen
    /\ calls[1].inst # calls[2].inst
    /\ \E k \in 1..MaxLen :
          calls[2].log[k].name = "shredder" /\ calls[2].log[k].ran
    /\ calls[2].out.mode = "RGBA"
    /\ calls[2].out.cols[1].src # 1
    /\ \E k \in 1..MaxLen : calls[2].log[k].name = "solarize" /\ calls[2].log[k].ran

C10_PoppedOnce ==
    /\ \A b, c \in Calls : \A j \in 1..Len(calls[b].log), k \in 1..Len(calls[c].log) :
          calls[b].log[j].pos = calls[c].log[k].pos => b = c /\ j = k
    /\ ((\E c \in Calls : Started(c)) /\
        (\A c \in Calls : Started(c) =>
            \/ calls[c].pc = "returned"
            \/ calls[c].pc = "raised" /\ calls[c].out.err = "IndexError"))
          => heap[1] = <<>>

\* The caller's lists only ever lose elements at their end.
C10_Shrinks == \A r \in CallerRefs : IsPrefix(heap'[r], heap[r])

C3_ModePreserved ==
    op = "ran" => out.mode = (IF inst.cls = "Solarize" THEN "RGB" ELSE src.mode)

\* What is left of C3 when Shredder's even-draw branch is set aside.
ModePreservedUnlessShredded ==
    (op = "ran" /\ ~(inst.cls = "Shredder" /\ rnd.d % 2 = 0)) =>
       out.mode = (IF inst.cls = "Solarize" THEN "RGB" ELSE src.mode)

\* The value a constructor argument is clamped to between lo and hi.
Nearest(lo, x, hi) == IF Lt(x, lo) THEN lo ELSE IF Gt(x, hi) THEN hi ELSE x

\* C7 as stated (parameter clamping): after construction 0.0 <= factor <= 1.0,
\* reduction >= 1 and radius >= 0, and the stored value is the default (0.85, 5,
\* 5) or the argument moved to the nearest bound, for every numeric argument.
C7_Clamped ==
    /\ Lookup("desaturate").p = Num(FactorDefault)
    /\ Lookup("pixelate").p = Num(ReductionDefault)
    /\ Lookup("blur").p = Num(RadiusDefault)
    /\ (op = "built" /\ inst.cls = "Desaturate") =>
          /\ Ge(inst.p, Num(FactorMin)) /\ Le(inst.p, Num(FactorMax))
          /\ inst.p \in {Num(FactorDefault), Nearest(Num(FactorMin), arg, Num(FactorMax))}
    /\ (op = "built" /\ inst.cls = "Pixelate") =>
          /\ Ge(inst.p, Num(ReductionMin))
          /\ inst.p \in {Num(ReductionDefault), IF Lt(arg, Num(ReductionMin)) THEN Num(ReductionMin) ELSE arg}
    /\ (op = "built" /\ inst.cls = "Blur") =>
          /\ Ge(inst.p, Num(RadiusMin))
          /\ inst.p \in {Num(RadiusDefault), IF Lt(arg, Num(RadiusMin)) THEN Num(RadiusMin) ELSE arg}

\* What is left of C7 when the argument is a number that compares (not NaN).
ClampedWhenOrdered == arg.nan \/ C7_Clamped

\* The output columns of the strip at output slot i, and the input columns of
\* the strip at input slot k, for strips of width sw.
StripIs(i, k, sw) ==
    \A j \in 1..sw : out.cols[i * sw + j].src = src.cols[k * sw + j].src

\* C8 as stated (Shredder strip permutation): on an even first draw the result
\* has the input's size, the strip at output slot i is the input strip at slot
\* sequence[i], and the strips account for every pixel column of the input; on
\* an odd first draw the result is the input.
C8_StripPermutation ==
    (op = "ran" /\ inst.cls = "Shredder") =>
       IF rnd.d % 2 = 0
       THEN LET sw == src.w \div rnd.SHREDS
            IN  /\ out.w = src.w /\ out.h = src.h
                /\ \A i \in 0..(rnd.SHREDS - 1) : StripIs(i, rnd.sequence[i + 1], sw)
                /\ \A x \in 1..src.w : \E y \in 1..out.w : out.cols[y].src = src.cols[x].src
       ELSE out = src

\* What is left of C8 when the shred count divides the width.
StripPermutationWhenDivides ==
    (op = "ran" /\ inst.cls = "Shredder" /\ rnd.d % 2 = 0 /\ src.w % rnd.SHREDS # 0)
       \/ C8_StripPermutation

\* C9 as stated (AlphaPreserver): when the original's mode has an alpha channel
\* the result is the derived image with the original's alpha and its other
\* bands as they were; for every other mode of the original the result is the
\* derived image unchanged.
C9_AlphaPreserver ==
    op = "alpha" =>
       IF HasAlpha(src.mode)
       THEN /\ HasAlpha(out.mode)
            /\ out.w = other.w /\ out.h = other.h
            /\ \A i \in 1..out.w :
                  /\ out.cols[i].a = src.cols[i].a
                  /\ out.cols[i].src = other.cols[i].src
                  /\ out.cols[i].fx = other.cols[i].fx
       ELSE out = other

\* What is left of C9 when the original's mode is not LAB.
AlphaPreservedUnlessLAB == (op = "alpha" /\ src.mode = "LAB") \/ C9_AlphaPreserver

====
